---- MODULE Spec2Model ----
(***************************************************************************)
(* Model of wow-sync: the local profile store (ProfileManager), the remote *)
(* store client and reconciler (GoogleDriveService), the IPC handlers of   *)
(* electron/main.ts and the capture/apply path of ProfileManager.          *)
(*                                                                         *)
(* Profile ids are the keys of both stores: the local file is <id>.json,   *)
(* the remote blob is profile-<id>.json and both hold the same id inside.  *)
(* A profile's payload (addons, gameSettings, name) is written and read as *)
(* one JSON document by every store operation; the stores model it by its  *)
(* name field.  Capture and apply model the payload in full (files).       *)
(* Timestamps are integers (milliseconds of the ISO strings the code       *)
(* compares through Date.getTime()).                                       *)
(***************************************************************************)
EXTENDS Integers, Sequences, FiniteSets, TLC

\* ------------------------------------------------------------------ bounds
\* Largest clock value; the clock stops there.
MaxTime == 1

\* Profile ids (uuids).  No operation of the application edits a stored
\* profile (a new capture makes a new id), so a profile's name and payload
\* are fixed by its id on every device.
Ids == {1, 2}
NameOf(i) == IF i = 1 THEN "A" ELSE "B"

VARIABLES
    local,      \* profilesDir: id -> record file (absent, undecodable or a profile)
    remote,     \* appDataFolder: id -> blob with its server modifiedTime
    now,        \* wall clock read by new Date() and by the server
    last,       \* what the last IPC handler run read, did and returned
    session,    \* GoogleDriveService: the access token and the drive client
    live,       \* WTF/Account/<account>: its directories and files
    captured,   \* the profile made by the last capture, and what it was made from
    alast,      \* what the last loadProfile call read, did and returned
    platform,   \* process.platform
    running,    \* the main process is alive
    window,     \* the BrowserWindow and the store of its renderer
    flight,     \* gdrive:* handler invocations the main process has not finished
    calls,      \* number of ipcRenderer.invoke('gdrive:*') calls made so far
    loads,      \* profiles:load invocations: call -> its state and its profile
    micro,      \* the microtask queue of the main process (calls to resume)
    fslog,      \* the fs calls of all loadProfile runs, in the order they happened
    dfiles,     \* the files of appDataFolder as the server holds them
    puts,       \* uploadProfile runs: call -> where it is suspended
    configured, \* isConfigured(): CLIENT_ID and CLIENT_SECRET are set
    credFile,   \* userData/google-credentials.json
    auth,       \* authenticate() calls: call -> promise, callback server, timer
    port,       \* the authenticate call whose server holds REDIRECT_PORT, or 0
    pass,       \* a gdrive:sync run in progress: where it is suspended, what it read
    settingsFile, \* userData/settings.json as getSettings() reads it
    appStore,   \* useAppStore of the renderer: its settings copy and syncStatus
    ulast       \* what the last store action of the renderer did

syncVars == <<local, remote, now, last, session>>
applyVars == <<live, captured, alast>>
ipcVars == <<platform, running, window, flight, calls>>
loadVars == <<loads, micro, fslog>>
putVars == <<dfiles, puts>>
authVars == <<configured, credFile, auth, port>>
passVars == <<pass>>
uiVars == <<settingsFile, appStore, ulast>>
extVars == <<authVars, passVars, uiVars>>
vars == <<syncVars, applyVars, ipcVars, loadVars, putVars, extVars>>

\* ------------------------------------------------------------ store values
NoFile == [st |-> "none", name |-> "-", updatedAt |-> 0]
CorruptFile == [st |-> "corrupt", name |-> "-", updatedAt |-> 0]
ProfileFile(n, u) == [st |-> "ok", name |-> n, updatedAt |-> u]

NoBlob == [st |-> "none", modifiedTime |-> 0, name |-> "-", updatedAt |-> 0]
Blob(m, n, u) == [st |-> "ok", modifiedTime |-> m, name |-> n, updatedAt |-> u]

\* The orders in which a directory (or a remote listing) can enumerate ids.
Perms(S) == {s \in [1..Cardinality(S) -> S] : \A a, b \in 1..Cardinality(S) : a # b => s[a] # s[b]}
Range(s) == {s[k] : k \in 1..Len(s)}

\* ------------------------------------------------- ProfileManager (local)
\* The for loop of listProfiles inside its try block: JSON.parse throws on an
\* undecodable file, the catch swallows it and the loop is over.
RECURSIVE ReadProfiles(_, _)
ReadProfiles(files, store) ==
    IF files = <<>> THEN <<>>
    ELSE LET i == Head(files) IN
         IF store[i].st = "none" THEN ReadProfiles(Tail(files), store)
         ELSE IF store[i].st = "corrupt" THEN <<>>
         ELSE <<[id |-> i, name |-> store[i].name, updatedAt |-> store[i].updatedAt]>>
              \o ReadProfiles(Tail(files), store)

\* Array.prototype.sort with (a, b) => b.updatedAt - a.updatedAt: stable,
\* newest first.  Insert x after every element that is not older than x.
RECURSIVE InsertSorted(_, _)
InsertSorted(x, s) ==
    IF s = <<>> THEN <<x>>
    ELSE IF Head(s).updatedAt >= x.updatedAt THEN <<Head(s)>> \o InsertSorted(x, Tail(s))
    ELSE <<x>> \o s

RECURSIVE SortNewestFirst(_)
SortNewestFirst(s) ==
    IF s = <<>> THEN <<>>
    ELSE InsertSorted(s[Len(s)], SortNewestFirst(SubSeq(s, 1, Len(s) - 1)))

ListProfiles(store, dirOrder) == SortNewestFirst(ReadProfiles(dirOrder, store))

\* A saveProfile that writes the profile as the caller handed it over.
SaveProfileAsGiven(store, p, t) == [store EXCEPT ![p.id] = ProfileFile(p.name, p.updatedAt)]

\* saveProfile: updatedAt is overwritten with the current time, the file is
\* written whole.
SaveProfile(store, p, t) == [store EXCEPT ![p.id] = ProfileFile(p.name, t)]

\* deleteProfile: unlink when the file exists.
DeleteProfile(store, i) == IF store[i].st # "none" THEN [store EXCEPT ![i] = NoFile] ELSE store

\* ---------------------------------------------- GoogleDriveService (remote)
\* uploadProfile: the blob named profile-<id>.json is updated or created with
\* JSON.stringify(profile); the server stamps modifiedTime.
UploadProfile(drive, p, t) == [drive EXCEPT ![p.id] = Blob(t, p.name, p.updatedAt)]

\* A listing without the per-file try/catch: the first download that throws
\* ends the loop.
RECURSIVE DownloadUntilFailure(_, _, _)
DownloadUntilFailure(files, drive, bad) ==
    IF files = <<>> THEN <<>>
    ELSE LET i == Head(files) IN
         IF i \in bad /\ drive[i].st # "none" THEN <<>>
         ELSE IF drive[i].st = "none" THEN DownloadUntilFailure(Tail(files), drive, bad)
         ELSE <<[id |-> i, modifiedTime |-> drive[i].modifiedTime,
                 name |-> drive[i].name, updatedAt |-> drive[i].updatedAt]>>
              \o DownloadUntilFailure(Tail(files), drive, bad)

\* listRemoteProfiles: every listed file is downloaded inside its own
\* try/catch; a file whose download throws (bad) is skipped.
RECURSIVE DownloadEach(_, _, _)
DownloadEach(files, drive, bad) ==
    IF files = <<>> THEN <<>>
    ELSE LET i == Head(files) IN
         IF drive[i].st = "none" \/ i \in bad THEN DownloadEach(Tail(files), drive, bad)
         ELSE <<[id |-> i, modifiedTime |-> drive[i].modifiedTime,
                 name |-> drive[i].name, updatedAt |-> drive[i].updatedAt]>>
              \o DownloadEach(Tail(files), drive, bad)

ListRemoteProfiles(drive, listOrder, bad) == DownloadEach(listOrder, drive, bad)

\* A call of a handler run that reached a store: a remote listing ("list"),
\* an upload ("put"), a local save ("save"), or a call that threw ("throw").
Ev(e, i) == [ev |-> e, id |-> i]

\* remoteMap.get(id) / localProfiles.find(p => p.id === id)
HasId(s, i) == \E k \in 1..Len(s) : s[k].id = i
ById(s, i) == s[CHOOSE k \in 1..Len(s) : s[k].id = i]

\* The comparison loop of syncProfiles over the local profiles.  acc carries
\* the drive, the SyncResult lists, the ids whose upload completed and
\* whether the loop is still running (an upload that throws ends the pass).
RECURSIVE CompareLoop(_, _, _, _, _)
CompareLoop(lps, rps, acc, upFail, t) ==
    IF lps = <<>> \/ ~acc.ok THEN acc
    ELSE LET p == Head(lps)
             known == HasId(rps, p.id)
             remoteTime == IF known THEN ById(rps, p.id).modifiedTime ELSE 0
             upload == ~known \/ p.updatedAt > remoteTime
             download == known /\ ~(p.updatedAt > remoteTime) /\ remoteTime > p.updatedAt
         IN  IF upload /\ p.id = upFail
                 THEN [acc EXCEPT !.ok = FALSE, !.log = Append(acc.log, Ev("throw", p.id))]
             ELSE IF upload
                 THEN CompareLoop(Tail(lps), rps,
                          [acc EXCEPT !.drive = UploadProfile(acc.drive, p, t),
                                      !.uploaded = Append(acc.uploaded, p.name),
                                      !.puts = acc.puts \cup {p.id},
                                      !.log = Append(acc.log, Ev("put", p.id))],
                          upFail, t)
             ELSE IF download
                 THEN CompareLoop(Tail(lps), rps,
                          [acc EXCEPT !.downloaded = Append(acc.downloaded, p.name)],
                          upFail, t)
             ELSE CompareLoop(Tail(lps), rps, acc, upFail, t)

\* A syncProfiles without its second loop: remote-only records are not reported.
RemoteOnlyIgnored(rps, lps) == <<>>

\* The second loop of syncProfiles: remote records whose id no local profile has.
RECURSIVE RemoteOnlyNames(_, _)
RemoteOnlyNames(rps, lps) ==
    IF rps = <<>> THEN <<>>
    ELSE IF ~HasId(lps, Head(rps).id)
         THEN <<Head(rps).name>> \o RemoteOnlyNames(Tail(rps), lps)
         ELSE RemoteOnlyNames(Tail(rps), lps)

\* syncProfiles(localProfiles): one remote listing, the comparison loop, the
\* remote-only loop.  listFail: drive.files.list throws.
SyncProfiles(lps, drive, listOrder, bad, listFail, upFail, t) ==
    LET start == [drive |-> drive, uploaded |-> <<>>, downloaded |-> <<>>,
                  puts |-> {}, ok |-> TRUE, fetched |-> {}, log |-> <<>>]
    IN  IF listFail THEN [start EXCEPT !.ok = FALSE, !.log = <<Ev("throw", 0)>>]
        ELSE LET rps == ListRemoteProfiles(drive, listOrder, bad)
                 r == CompareLoop(lps, rps,
                                  [start EXCEPT !.fetched = {rps[k].id : k \in 1..Len(rps)},
                                                !.log = <<Ev("list", 0)>>],
                                  upFail, t)
             IN  IF r.ok THEN [r EXCEPT !.downloaded = r.downloaded \o RemoteOnlyNames(rps, lps)]
                 ELSE r

\* A push-all that goes on to the next profile after an upload that threw.
RECURSIVE PushAllPastFailure(_, _, _, _)
PushAllPastFailure(lps, acc, upFail, t) ==
    IF lps = <<>> THEN acc
    ELSE IF Head(lps).id = upFail
         THEN PushAllPastFailure(Tail(lps),
                  [acc EXCEPT !.ok = FALSE, !.log = Append(acc.log, Ev("throw", Head(lps).id))],
                  upFail, t)
    ELSE PushAllPastFailure(Tail(lps),
             [acc EXCEPT !.drive = UploadProfile(acc.drive, Head(lps), t),
                         !.puts = acc.puts \cup {Head(lps).id},
                         !.log = Append(acc.log, Ev("put", Head(lps).id))],
             upFail, t)

\* pushAllProfiles(profiles): every profile is uploaded, in order.
RECURSIVE PushAllProfiles(_, _, _, _)
PushAllProfiles(lps, acc, upFail, t) ==
    IF lps = <<>> \/ ~acc.ok THEN acc
    ELSE IF Head(lps).id = upFail
         THEN [acc EXCEPT !.ok = FALSE, !.log = Append(acc.log, Ev("throw", Head(lps).id))]
    ELSE PushAllProfiles(Tail(lps),
             [acc EXCEPT !.drive = UploadProfile(acc.drive, Head(lps), t),
                         !.puts = acc.puts \cup {Head(lps).id},
                         !.log = Append(acc.log, Ev("put", Head(lps).id))],
             upFail, t)

\* The download loop of the gdrive:sync handler over pullProfiles(): a remote
\* profile is saved when the local snapshot has no profile of that id or the
\* remote profile's own updatedAt is newer than the snapshot's.
SyncWantsSave(rp, lps) ==
    ~HasId(lps, rp.id) \/ rp.updatedAt > ById(lps, rp.id).updatedAt

RECURSIVE SyncSaveLoop(_, _, _, _)
SyncSaveLoop(rps, lps, acc, t) ==
    IF rps = <<>> THEN acc
    ELSE LET rp == Head(rps) IN
         IF SyncWantsSave(rp, lps)
         THEN SyncSaveLoop(Tail(rps), lps,
                  [store |-> SaveProfile(acc.store, rp, t),
                   saves |-> acc.saves \cup {rp.id},
                   log |-> Append(acc.log, Ev("save", rp.id))], t)
         ELSE SyncSaveLoop(Tail(rps), lps, acc, t)

\* The loop of the gdrive:pull handler: every remote profile is saved.
RECURSIVE PullSaveLoop(_, _, _)
PullSaveLoop(rps, acc, t) ==
    IF rps = <<>> THEN acc
    ELSE PullSaveLoop(Tail(rps),
             [store |-> SaveProfile(acc.store, Head(rps), t),
              saves |-> acc.saves \cup {Head(rps).id},
              log |-> Append(acc.log, Ev("save", Head(rps).id))], t)

\* ------------------------------------------------------------------ faults
\* What can go wrong in one handler run (at most one fault per run):
\*   list / relist : drive.files.list throws in the first / second listing
\*   get / reget   : the download of blob i throws in the first / second listing
\*   put           : the upload of profile i throws
NoFault == [kind |-> "none", id |-> 0]
Faults == {NoFault, [kind |-> "list", id |-> 0], [kind |-> "relist", id |-> 0]}
          \cup {[kind |-> k, id |-> i] : k \in {"get", "reget", "put"}, i \in Ids}
BadIn(f, k) == IF f.kind = k THEN {f.id} ELSE {}
PutFail(f) == IF f.kind = "put" THEN f.id ELSE 0

\* ------------------------------------------- ProfileManager (capture, apply)
\* The add-ons the model knows and their account-level SavedVariables files.
ADDON_FILES(a) ==
    IF a = "ElvUI" THEN <<"ElvUI.lua">> ELSE <<"WeakAuras.lua", "WeakAurasSaved.lua">>
\* The add-on selections a capture is asked for.
Selections == {<<>>, <<"ElvUI">>, <<"WeakAuras">>, <<"ElvUI", "WeakAuras">>}

\* The files of the account directory: SavedVariables/*.lua in readdirSync
\* order, and config-cache.wtf next to the SavedVariables directory.
LuaFiles == <<"ElvUI.lua", "WeakAuras.lua", "WeakAurasSaved.lua">>
ConfigCache == "config-cache.wtf"
TargetFiles == Range(LuaFiles) \cup {ConfigCache}

\* A file is a sequence of bytes.  "61" is the byte of the letter a, "FF" a
\* byte that is no UTF-8, "EFBFBD" the three bytes that encode U+FFFD.
Absent == [ex |-> FALSE, data |-> <<>>]
File(d) == [ex |-> TRUE, data |-> d]

\* fs.readFileSync(path, 'utf-8'): Buffer.toString('utf8') turns every byte
\* sequence that is not valid UTF-8 into U+FFFD.
DecodeByte(b) == IF b = "61" THEN "a" ELSE "U+FFFD"
Utf8Decode(bytes) == [k \in 1..Len(bytes) |-> DecodeByte(bytes[k])]
\* fs.writeFileSync(path, string): the string is encoded as UTF-8.
EncodeChar(c) == IF c = "a" THEN "61" ELSE "EFBFBD"
Utf8Encode(text) == [k \in 1..Len(text) |-> EncodeChar(text[k])]

\* The account directory: which of its directories exist ("none": not even
\* the account directory, "account": no SavedVariables in it, "saved": both).
EmptyTarget == [dirs |-> "none", files |-> [f \in TargetFiles |-> Absent]]

NoSettings == [has |-> FALSE, text |-> <<>>]
NoProfile == [addons |-> <<>>, gameSettings |-> NoSettings]

\* createFromCurrentSettings: the inner loop over addonConfig.accountLevel.
\* A file key `account/<fileName>` is modelled by its two parts.
RECURSIVE ReadAccountLevel(_, _)
ReadAccountLevel(fileNames, t) ==
    IF fileNames = <<>> THEN <<>>
    ELSE LET fileName == Head(fileNames)
             rest == ReadAccountLevel(Tail(fileNames), t)
         IN  IF t.files[fileName].ex
             THEN <<[level |-> "account", fileName |-> fileName,
                     content |-> Utf8Decode(t.files[fileName].data)]>> \o rest
             ELSE rest

\* A capture that stores an add-on without files as a disabled bundle.
CaptureAddonsKeepingEmpty(addons, t) ==
    [k \in 1..Len(addons) |->
        LET files == ReadAccountLevel(ADDON_FILES(addons[k]), t)
        IN  [name |-> addons[k], enabled |-> Len(files) > 0, files |-> files]]

\* createFromCurrentSettings: the loop over the requested add-ons.
RECURSIVE CaptureAddons(_, _)
CaptureAddons(addons, t) ==
    IF addons = <<>> THEN <<>>
    ELSE LET files == ReadAccountLevel(ADDON_FILES(Head(addons)), t)
             rest == CaptureAddons(Tail(addons), t)
         IN  IF Len(files) > 0
             THEN <<[name |-> Head(addons), enabled |-> TRUE, files |-> files]>> \o rest
             ELSE rest

\* createFromCurrentSettings: the profile it saves and returns.
CreateFromCurrentSettings(addons, t) ==
    IF t.dirs # "saved" THEN NoProfile
    ELSE [addons |-> CaptureAddons(addons, t),
          gameSettings |-> IF t.files[ConfigCache].ex
                           THEN [has |-> TRUE, text |-> Utf8Decode(t.files[ConfigCache].data)]
                           ELSE NoSettings]

\* An fs call of loadProfile that changed a file.
FsEvent(op, f) == [op |-> op, file |-> f]

\* createBackup: the loop over readdirSync(savedVarsPath).  copyFileSync of
\* copyFail throws, which ends the loop and rejects createBackup.
RECURSIVE BackupLoop(_, _, _, _)
BackupLoop(files, t, acc, copyFail) ==
    IF files = <<>> THEN acc
    ELSE LET file == Head(files) IN
         IF ~t.files[file].ex THEN BackupLoop(Tail(files), t, acc, copyFail)
         ELSE IF file = copyFail THEN [acc EXCEPT !.ok = FALSE]
         ELSE BackupLoop(Tail(files), t,
                         [acc EXCEPT !.files[file] = t.files[file],
                                     !.log = Append(acc.log, FsEvent("copy", file))],
                         copyFail)

NoBackup == [ok |-> TRUE, made |-> FALSE, files |-> [f \in TargetFiles |-> Absent], log |-> <<>>]

CreateBackup(t, copyFail) ==
    IF t.dirs # "saved" THEN NoBackup
    ELSE BackupLoop(LuaFiles, t, [NoBackup EXCEPT !.made = TRUE], copyFail)

\* loadProfile: the loop over Object.entries(addonConfig.files).
RECURSIVE WriteFiles(_, _)
WriteFiles(files, acc) ==
    IF files = <<>> THEN acc
    ELSE LET e == Head(files) IN
         IF e.level = "account"
         THEN WriteFiles(Tail(files),
                  [t |-> [dirs |-> "saved",
                          files |-> [acc.t.files EXCEPT ![e.fileName] = File(Utf8Encode(e.content))]],
                   log |-> Append(acc.log, FsEvent("write", e.fileName))])
         ELSE WriteFiles(Tail(files), acc)

\* A loop over profile.addons without the `enabled` test.
RECURSIVE WriteDisabledToo(_, _)
WriteDisabledToo(addons, acc) ==
    IF addons = <<>> THEN acc
    ELSE WriteDisabledToo(Tail(addons), WriteFiles(Head(addons).files, acc))

\* loadProfile: the loop over Object.entries(profile.addons).
RECURSIVE WriteAddons(_, _)
WriteAddons(addons, acc) ==
    IF addons = <<>> THEN acc
    ELSE IF ~Head(addons).enabled THEN WriteAddons(Tail(addons), acc)
    ELSE WriteAddons(Tail(addons), WriteFiles(Head(addons).files, acc))

\* A loadProfile that goes on to write although createBackup rejected.
LoadProfileDespiteBackup(profile, t, copyFail) ==
    LET b == CreateBackup(t, copyFail)
        w == WriteAddons(profile.addons, [t |-> t, log |-> b.log])
    IN  [err |-> IF b.ok THEN "none" ELSE "backup", live |-> w.t, backup |-> b, log |-> w.log]

\* loadProfile after its await: the two loops and the config-cache.wtf write.
\* err is "enoent" when config-cache.wtf is written into an account directory
\* that does not exist.
WriteProfile(profile, t, log) ==
    LET w == WriteAddons(profile.addons, [t |-> t, log |-> log])
        truthy == profile.gameSettings.has /\ profile.gameSettings.text # <<>>
    IN  IF ~truthy THEN [err |-> "none", live |-> w.t, log |-> w.log]
        ELSE IF w.t.dirs = "none" THEN [err |-> "enoent", live |-> w.t, log |-> w.log]
        ELSE [err |-> "none",
              live |-> [w.t EXCEPT !.files[ConfigCache] = File(Utf8Encode(profile.gameSettings.text))],
              log |-> Append(w.log, FsEvent("write", ConfigCache))]

\* loadProfile.  err is "backup" when createBackup rejected.
LoadProfile(profile, t, copyFail) ==
    LET b == CreateBackup(t, copyFail)
        w == WriteProfile(profile, t, b.log)
    IN  IF ~b.ok THEN [err |-> "backup", live |-> t, backup |-> b, log |-> b.log]
        ELSE [err |-> w.err, live |-> w.live, backup |-> b, log |-> w.log]

NoCapture == [has |-> FALSE, profile |-> NoProfile, source |-> EmptyTarget, addons |-> <<>>]
AIdle == [op |-> "none", err |-> "none", copyFail |-> "-", preLive |-> EmptyTarget,
          backup |-> NoBackup, log |-> <<>>, profile |-> NoProfile]

\* -------------------------------------------------- windows and IPC calls
\* Largest number of windows the application opens in one run, and of
\* gdrive:* calls its renderers make.
MaxWindows == 2
MaxCalls == 2

SyncOps == {"sync", "push", "pull"}
\* The store actions that hold isSyncing while their IPC call is pending.
StoreOps == SyncOps \cup {"connect", "disconnect"}

NewWindow(g) == [gen |-> g, open |-> TRUE, isSyncing |-> FALSE, refreshing |-> FALSE]

\* ------------------------------------------------ concurrent profiles:load
\* The profiles:load invocations of one run and the profiles they may carry.
LoadCalls == {1, 2}
TargetWith(e, w) ==
    [dirs |-> "saved",
     files |-> [f \in TargetFiles |-> IF f = "ElvUI.lua" THEN e
                                       ELSE IF f = "WeakAuras.lua" THEN w ELSE Absent]]
StoredProfiles ==
    {CreateFromCurrentSettings(<<"ElvUI", "WeakAuras">>, TargetWith(File(<<"61">>), File(<<"61">>))),
     CreateFromCurrentSettings(<<"ElvUI">>, TargetWith(File(<<"FF">>), Absent))}
NoLoad == [st |-> "none", profile |-> NoProfile]

\* The profiles a renderer may hand to profiles:load: bundles enabled or
\* not, file keys of the account level or of a level loadProfile does not
\* know, with or without a gameSettings blob.
Entry(level, fileName, content) == [level |-> level, fileName |-> fileName, content |-> content]
ElvUIBundles ==
    {[name |-> "ElvUI", enabled |-> e, files |-> <<Entry("account", "ElvUI.lua", <<"a", "a">>)>>] :
        e \in BOOLEAN}
WeakAurasBundles ==
    {[name |-> "WeakAuras", enabled |-> e,
      files |-> <<Entry("account", "WeakAuras.lua", <<"a", "a">>),
                  Entry(l, "WeakAurasSaved.lua", <<"a">>)>>] :
        e \in BOOLEAN, l \in {"account", "character"}}
GivenAddons ==
    {<<>>} \cup {<<b>> : b \in ElvUIBundles \cup WeakAurasBundles}
           \cup {<<b, c>> : b \in ElvUIBundles, c \in WeakAurasBundles}
GivenProfiles ==
    {[addons |-> a, gameSettings |-> g] :
        a \in GivenAddons, g \in {NoSettings, [has |-> TRUE, text |-> <<"a", "a">>]}}

\* An event loop that would start a task while microtasks are pending.
StartsAmidMicrotasks(queue) == TRUE

\* A new task (an IPC message) is taken from the event loop only when the
\* microtask queue is empty: the continuation of `await this.createBackup()`
\* runs before any other handler starts.
MayStartTask(queue) == queue = <<>>

\* The events of log, tagged with the call that made them.
Tagged(c, log) == [k \in 1..Len(log) |-> [call |-> c, op |-> log[k].op, file |-> log[k].file]]

\* ------------------------------------------------ uploadProfile, stepwise
\* Largest file id the server hands out in one run.
MaxFileId == 3
FileIds == 1..MaxFileId
\* The uploadProfile runs of one run of the application.
PutCalls == {1, 2, 3}
NoPut == [pc |-> "none", id |-> 0, found |-> 0]

\* files.list with q = name='profile-<id>.json': the files of that name.
FilesNamed(files, i) == {f \in files : f.id = i}

\* ------------------------------------------------------------ handler runs
Idle == [op |-> "none", ok |-> TRUE, preLocal |-> [i \in Ids |-> NoFile],
         preRemote |-> [i \in Ids |-> NoBlob], uploaded |-> <<>>, downloaded |-> <<>>,
         puts |-> {}, saves |-> {}, listed |-> {}, fetched |-> {}, fault |-> NoFault,
         again |-> FALSE, err |-> "none", log |-> <<>>, isConnected |-> TRUE,
         id |-> 0, lps |-> <<>>]

IdsOf(s) == {s[k].id : k \in 1..Len(s)}

\* this.oauth2Client.credentials.access_token is set / this.drive is not null.
Connected == [token |-> TRUE, drive |-> TRUE]
Disconnected == [token |-> FALSE, drive |-> FALSE]
\* isConnected()
IsConnected(s) == s.token

\* if (!this.drive) throw new Error('Not connected to Google Drive'): what a
\* handler run that met the guard leaves behind.
NotConnected(op, store, drive, s, lps) ==
    [Idle EXCEPT !.op = op, !.ok = FALSE, !.err = "Not connected to Google Drive",
                 !.preLocal = store, !.preRemote = drive, !.isConnected = IsConnected(s),
                 !.listed = IdsOf(lps)]

\* authenticate(): the OAuth callback.  "granted": the tokens are set, saved
\* and the drive client is made; "unsaved": saveCredentials throws after
\* setCredentials; "refused": no code, an error of getToken, or the timeout.
Authenticate(s, outcome) ==
    IF outcome = "granted" THEN Connected
    ELSE IF outcome = "unsaved" THEN [s EXCEPT !.token = TRUE]
    ELSE s

\* A disconnect that forgets the token and keeps the drive client.
DisconnectKeepingClient(s) == [s EXCEPT !.token = FALSE]

\* disconnect(): setCredentials({}) and this.drive = null.
Disconnect(s) == Disconnected

\* A deleteRemoteProfile without its `if (fileId)`: files.delete is called
\* with the null of a lookup that found nothing, and throws.
DeleteRemoteUnchecked(drive, i, s, lookupThrows) ==
    IF ~s.drive \/ lookupThrows \/ drive[i].st = "none" THEN [ok |-> FALSE, drive |-> drive]
    ELSE [ok |-> TRUE, drive |-> [drive EXCEPT ![i] = NoBlob]]

\* deleteRemoteProfile(profileId): the guard, findFileByName (null when no
\* file has the name or when the lookup threw), files.delete when found.
DeleteRemoteProfile(drive, i, s, lookupThrows) ==
    IF ~s.drive THEN [ok |-> FALSE, drive |-> drive]
    ELSE IF lookupThrows \/ drive[i].st = "none" THEN [ok |-> TRUE, drive |-> drive]
    ELSE [ok |-> TRUE, drive |-> [drive EXCEPT ![i] = NoBlob]]

\* ------------------------------------------------- authenticate, stepwise
\* Calls of authenticate() that may be under way at once (one per
\* ipcRenderer.invoke('gdrive:connect')).
MaxAttempts == 2
AuthCalls == 1..MaxAttempts

\* google-credentials.json: absent, the tokens saveCredentials wrote, or a
\* file JSON.parse rejects.
CredFiles == {"none", "tokens", "corrupt"}

\* loadCredentials(): the constructor reads the file whether or not the
\* client is configured; a file that does not parse is logged and ignored.
LoadCredentials(file) == IF file = "tokens" THEN Connected ELSE Disconnected

\* One authenticate() call: the promise (st, err), the callback server, the
\* five-minute timer and whether a getToken exchange is in flight.
NoAuth == [st |-> "idle", err |-> "none", server |-> "none", timer |-> "none", exch |-> FALSE]

\* A server.close() that leaves the server listening.
KeepListening(a) == a

\* server.close(): a listening server stops listening.
CloseServer(a) == IF a.server = "listening" THEN [a EXCEPT !.server = "closed"] ELSE a

\* resolve(true) / reject(err): a promise settles once.
Settle(a, st, err) == IF a.st = "pending" THEN [a EXCEPT !.st = st, !.err = err] ELSE a

\* The port after call c closed its server.
PortAfterClose(c, pt) == IF pt = c THEN 0 ELSE pt

Present(store) == {i \in Ids : store[i].st # "none"}
Decodable(store) == {i \in Ids : store[i].st = "ok"}

InitSyncVars ==
    /\ local = [i \in Ids |-> NoFile]
    /\ remote = [i \in Ids |-> NoBlob]
    /\ now = 0
    /\ last = Idle
    /\ session = Connected
InitApplyVars ==
    /\ captured = NoCapture
    /\ alast = AIdle
InitIpcVars ==
    /\ running = TRUE
    /\ window = NewWindow(1)
    /\ flight = {}
    /\ calls = 0
InitLoadVars ==
    /\ loads = [c \in LoadCalls |-> NoLoad]
    /\ micro = <<>>
    /\ fslog = <<>>
InitPutVars ==
    /\ dfiles = {}
    /\ puts = [c \in PutCalls |-> NoPut]

InitAuthVars ==
    /\ configured = TRUE
    /\ credFile = "none"
    /\ auth = [c \in AuthCalls |-> NoAuth]
    /\ port = 0

\* settings.json: the fields the handlers and the renderer write.
\* lastSyncTime is null (has = FALSE) or an ISO time.
NoSyncTime == [has |-> FALSE, at |-> 0]
SyncTime(t) == [has |-> TRUE, at |-> t]
Accounts == {"none", "main"}
DEFAULT_SETTINGS == [selectedAccount |-> "none", googleDriveConnected |-> FALSE,
                     lastSyncTime |-> NoSyncTime]

\* The settings read-modify-write at the end of gdrive:sync, gdrive:push and
\* gdrive:pull; a handler that threw does not come to it.
SaveLastSyncTime(settings, ok, t) ==
    IF ok THEN [settings EXCEPT !.lastSyncTime = SyncTime(t)] ELSE settings

\* The store of the renderer before initialize(): settings null, syncStatus null.
NoStatus == [null |-> TRUE, connected |-> FALSE]
Status(c) == [null |-> FALSE, connected |-> c]
NewStore == [loaded |-> FALSE, settings |-> DEFAULT_SETTINGS, syncStatus |-> NoStatus]
UIdle == [op |-> "none", account |-> "none", preFile |-> DEFAULT_SETTINGS]

InitUiVars ==
    /\ settingsFile = DEFAULT_SETTINGS
    /\ appStore = NewStore
    /\ ulast = UIdle

\* No gdrive:sync run is under way.
NoPass == [pc |-> "idle", lps |-> <<>>, downloaded |-> <<>>, saves |-> {},
           atRead |-> [i \in Ids |-> NoFile], atWrite |-> [i \in Ids |-> NoFile],
           remoteTime |-> [i \in Ids |-> 0]]

InitPassVars == pass = NoPass

Init ==
    /\ InitSyncVars
    /\ live = EmptyTarget /\ InitApplyVars
    /\ platform = "darwin" /\ InitIpcVars
    /\ InitLoadVars
    /\ InitPutVars
    /\ InitAuthVars
    /\ InitPassVars
    /\ InitUiVars

\* ------------------------------------------------------------- environment
\* uuidv4(): an id no store has seen.  Which unused id it is does not matter;
\* the model hands them out in order.
Used == {i \in Ids : local[i].st # "none" \/ remote[i].st # "none"}
FreshId == IF Used = Ids THEN 0 ELSE CHOOSE i \in Ids \ Used : \A j \in Ids \ Used : i <= j

Tick ==
    /\ now < MaxTime
    /\ now' = now + 1
    /\ last' = Idle
    /\ UNCHANGED <<local, remote, session, applyVars, ipcVars, loadVars, putVars, extVars>>

\* profiles:create-from-current as the store sees it: a profile with a fresh
\* uuid is saved.
CreateProfile(i) ==
    /\ i = FreshId
    /\ local' = SaveProfile(local, [id |-> i, name |-> NameOf(i), updatedAt |-> now], now)
    /\ last' = Idle
    /\ UNCHANGED <<remote, now, session, applyVars, ipcVars, loadVars, putVars, extVars>>

\* profiles:delete
ProfilesDelete(i) ==
    /\ local[i].st # "none"
    /\ local' = DeleteProfile(local, i)
    /\ last' = Idle
    /\ UNCHANGED <<remote, now, session, applyVars, ipcVars, loadVars, putVars, extVars>>

\* A record file left undecodable (a write cut short, a damaged disk).
DamageFile(i) ==
    /\ local[i].st = "ok"
    /\ local' = [local EXCEPT ![i] = CorruptFile]
    /\ last' = Idle
    /\ UNCHANGED <<remote, now, session, applyVars, ipcVars, loadVars, putVars, extVars>>

\* Another device of the same user uploads its copy of a profile, saved there
\* at time u.
OtherDevicePut(i, u) ==
    /\ i \in Used \/ i = FreshId
    /\ remote' = UploadProfile(remote, [id |-> i, name |-> NameOf(i), updatedAt |-> u], now)
    /\ remote' # remote
    /\ last' = Idle
    /\ UNCHANGED <<local, now, session, applyVars, ipcVars, loadVars, putVars, extVars>>

\* ---------------------------------------------------------------- handlers
\* ipcMain.handle('gdrive:sync')
GdriveSync(dirOrder, listOrder, f) ==
    LET lps == ListProfiles(local, dirOrder)
        r == SyncProfiles(lps, remote, listOrder, BadIn(f, "get"), f.kind = "list", PutFail(f), now)
        pull == r.ok /\ Len(r.downloaded) > 0
        relistFail == pull /\ f.kind = "relist"
        rps2 == ListRemoteProfiles(r.drive, listOrder, BadIn(f, "reget"))
        none == [store |-> local, saves |-> {}, log |-> r.log]
        s == IF pull /\ relistFail THEN [none EXCEPT !.log = Append(r.log, Ev("throw", 0))]
             ELSE IF pull
             THEN SyncSaveLoop(rps2, lps, [none EXCEPT !.log = Append(r.log, Ev("list", 0))], now)
             ELSE none
    IN  IF ~session.drive
        THEN /\ f = NoFault
             /\ last' = NotConnected("sync", local, remote, session, lps)
             /\ UNCHANGED <<local, remote, now, session, applyVars, ipcVars, loadVars, putVars, extVars>>
        ELSE /\ \/ f.kind \in {"none", "list"}
                \/ f.kind = "get" /\ remote[f.id].st = "ok"
                \/ f.kind = "put" /\ ~r.ok
                \/ f.kind = "relist" /\ pull
                \/ f.kind = "reget" /\ pull /\ r.drive[f.id].st = "ok"
             /\ remote' = r.drive
             /\ local' = s.store
             /\ last' = [Idle EXCEPT !.op = "sync", !.ok = r.ok /\ ~relistFail, !.fault = f,
                                     !.err = IF r.ok /\ ~relistFail THEN "none" ELSE "remote",
                                     !.preLocal = local, !.preRemote = remote,
                                     !.uploaded = r.uploaded, !.downloaded = r.downloaded,
                                     !.puts = r.puts, !.saves = s.saves,
                                     !.listed = IdsOf(lps), !.fetched = r.fetched, !.log = s.log,
                                     !.isConnected = IsConnected(session),
                                     !.again = last.op = "sync" /\ last.ok /\ last.fault = NoFault]
             /\ settingsFile' = SaveLastSyncTime(settingsFile, r.ok /\ ~relistFail, now)
             /\ UNCHANGED <<now, session, applyVars, ipcVars, loadVars, putVars, authVars, passVars, appStore, ulast>>

\* ipcMain.handle('gdrive:push')
GdrivePush(dirOrder, f) ==
    LET lps == ListProfiles(local, dirOrder)
        r == PushAllProfiles(lps, [drive |-> remote, puts |-> {}, ok |-> TRUE, log |-> <<>>],
                             PutFail(f), now)
    IN  IF ~session.drive
        THEN /\ f = NoFault
             /\ last' = NotConnected("push", local, remote, session, lps)
             /\ UNCHANGED <<local, remote, now, session, applyVars, ipcVars, loadVars, putVars, extVars>>
        ELSE /\ f.kind = "put" => ~r.ok
             /\ remote' = r.drive
             /\ last' = [Idle EXCEPT !.op = "push", !.ok = r.ok, !.fault = f,
                                     !.err = IF r.ok THEN "none" ELSE "remote",
                                     !.preLocal = local, !.preRemote = remote, !.puts = r.puts,
                                     !.listed = IdsOf(lps), !.log = r.log,
                                     !.isConnected = IsConnected(session)]
             /\ settingsFile' = SaveLastSyncTime(settingsFile, r.ok, now)
             /\ UNCHANGED <<local, now, session, applyVars, ipcVars, loadVars, putVars, authVars, passVars, appStore, ulast>>

\* ipcMain.handle('gdrive:pull')
GdrivePull(listOrder, f) ==
    LET rps == ListRemoteProfiles(remote, listOrder, BadIn(f, "get"))
        listFail == f.kind = "list"
        s == IF listFail THEN [store |-> local, saves |-> {}, log |-> <<Ev("throw", 0)>>]
             ELSE PullSaveLoop(rps, [store |-> local, saves |-> {}, log |-> <<Ev("list", 0)>>], now)
    IN  IF ~session.drive
        THEN /\ f = NoFault
             /\ last' = NotConnected("pull", local, remote, session, <<>>)
             /\ UNCHANGED <<local, remote, now, session, applyVars, ipcVars, loadVars, putVars, extVars>>
        ELSE /\ f.kind = "get" => remote[f.id].st = "ok"
             /\ local' = s.store
             /\ last' = [Idle EXCEPT !.op = "pull", !.ok = ~listFail, !.fault = f,
                                     !.err = IF listFail THEN "remote" ELSE "none",
                                     !.preLocal = local, !.preRemote = remote, !.saves = s.saves,
                                     !.fetched = IF listFail THEN {} ELSE IdsOf(rps), !.log = s.log,
                                     !.isConnected = IsConnected(session)]
             /\ settingsFile' = SaveLastSyncTime(settingsFile, ~listFail, now)
             /\ UNCHANGED <<remote, now, session, applyVars, ipcVars, loadVars, putVars, authVars, passVars, appStore, ulast>>

\* The listing orders: readdirSync and drive.files.list promise none.
DirOrders == Perms(Ids)
ListOrder == CHOOSE s \in Perms(Ids) : \A k \in 1..(Len(s) - 1) : s[k] < s[k + 1]

Next ==
    \/ Tick
    \/ \E i \in Ids : CreateProfile(i)
    \/ \E i \in Ids : ProfilesDelete(i)
    \/ \E i \in Ids : DamageFile(i)
    \/ \E i \in Ids, u \in 0..now : OtherDevicePut(i, u)
    \/ \E dirOrder \in DirOrders, f \in Faults : GdriveSync(dirOrder, ListOrder, f)
    \/ \E dirOrder \in DirOrders, f \in {g \in Faults : g.kind \in {"none", "put"}} :
          GdrivePush(dirOrder, f)
    \/ \E f \in {g \in Faults : g.kind \in {"none", "list", "get"}} : GdrivePull(ListOrder, f)

Spec == Init /\ [][Next]_vars

\* ========================================================= capture and apply
\* The game (or the user) writes a SavedVariables file, creating the
\* directories it needs.
GameData(f) == IF f = "ElvUI.lua" THEN {<<"61">>, <<"FF">>} ELSE {<<"61">>}

GameWritesLua(f, d) ==
    /\ live.files[f] # File(d)
    /\ live' = [dirs |-> "saved", files |-> [live.files EXCEPT ![f] = File(d)]]
    /\ alast' = AIdle
    /\ UNCHANGED <<captured, syncVars, ipcVars, loadVars, putVars, extVars>>

\* The game writes config-cache.wtf.
GameWritesConfig(d) ==
    /\ live.files[ConfigCache] # File(d)
    /\ live' = [dirs |-> IF live.dirs = "none" THEN "account" ELSE live.dirs,
                files |-> [live.files EXCEPT ![ConfigCache] = File(d)]]
    /\ alast' = AIdle
    /\ UNCHANGED <<captured, syncVars, ipcVars, loadVars, putVars, extVars>>

\* The account directory is removed (a fresh installation, another machine).
WipeTarget ==
    /\ live # EmptyTarget
    /\ live' = EmptyTarget
    /\ alast' = AIdle
    /\ UNCHANGED <<captured, syncVars, ipcVars, loadVars, putVars, extVars>>

\* ipcMain.handle('profiles:create-from-current') as the account directory
\* sees it.
Capture(addons) ==
    /\ captured' = [has |-> TRUE, profile |-> CreateFromCurrentSettings(addons, live),
                    source |-> live, addons |-> addons]
    /\ captured' # captured
    /\ alast' = AIdle
    /\ UNCHANGED <<live, syncVars, ipcVars, loadVars, putVars, extVars>>

\* ipcMain.handle('profiles:load') with the profile of the last capture.
Apply(copyFail) ==
    LET r == LoadProfile(captured.profile, live, copyFail) IN
    /\ captured.has
    /\ copyFail # "-" => r.err = "backup"
    /\ live' = r.live
    /\ alast' = [op |-> "apply", err |-> r.err, copyFail |-> copyFail, preLive |-> live,
                 backup |-> r.backup, log |-> r.log, profile |-> captured.profile]
    /\ UNCHANGED <<captured, syncVars, ipcVars, loadVars, putVars, extVars>>

NextApply ==
    \/ \E f \in {"ElvUI.lua", "WeakAuras.lua"} : \E d \in GameData(f) : GameWritesLua(f, d)
    \/ \E d \in {<<>>, <<"61">>} : GameWritesConfig(d)
    \/ WipeTarget
    \/ \E addons \in Selections : Capture(addons)
    \/ \E copyFail \in {"-"} \cup Range(LuaFiles) : Apply(copyFail)

SpecApply == Init /\ [][NextApply]_vars

\* ====================================================== windows and handlers
\* A button of the sync panel is clicked: the store action sets isSyncing and
\* invokes the handler.  The buttons are disabled while isSyncing is set.
StoreAction(op) ==
    /\ running /\ window.open /\ ~window.isSyncing
    /\ calls < MaxCalls
    /\ window' = [window EXCEPT !.isSyncing = TRUE]
    /\ calls' = calls + 1
    /\ flight' = flight \cup {[n |-> calls + 1, gen |-> window.gen, op |-> op, pc |-> "start"]}
    /\ UNCHANGED <<platform, running, syncVars, applyVars, loadVars, putVars, extVars>>

\* The await points of a handler: where it is suspended after each step.
NextPc(op, pc) ==
    IF op = "sync" THEN
        IF pc = "start" THEN {"syncProfiles"}
        ELSE IF pc = "syncProfiles" THEN {"pullProfiles", "settings"}
        ELSE IF pc = "pullProfiles" THEN {"settings"} ELSE {}
    ELSE IF op = "push" THEN
        IF pc = "start" THEN {"pushAllProfiles"}
        ELSE IF pc = "pushAllProfiles" THEN {"settings"} ELSE {}
    ELSE IF op = "pull" THEN
        IF pc = "start" THEN {"pullProfiles"}
        ELSE IF pc = "pullProfiles" THEN {"settings"} ELSE {}
    ELSE IF pc = "start" THEN {"oauth"} ELSE {}

\* The main process runs a handler up to its next await.
HandlerStep(c, pc) ==
    /\ running /\ c \in flight
    /\ pc \in NextPc(c.op, c.pc)
    /\ flight' = (flight \ {c}) \cup {[c EXCEPT !.pc = pc]}
    /\ UNCHANGED <<platform, running, window, calls, syncVars, applyVars, loadVars, putVars, extVars>>

\* A handler returns or throws; the promise of the renderer that invoked it
\* (if that renderer still exists) settles and the store action goes on to
\* reload profiles and settings.
HandlerReturn(c) ==
    /\ running /\ c \in flight /\ c.pc # "start"
    /\ flight' = flight \ {c}
    /\ window' = IF window.open /\ window.gen = c.gen
                 THEN [window EXCEPT !.refreshing = TRUE] ELSE window
    /\ UNCHANGED <<platform, running, calls, syncVars, applyVars, loadVars, putVars, extVars>>

\* finally { set({ isSyncing: false }) }
StoreFinally ==
    /\ running /\ window.open /\ window.refreshing
    /\ window' = [window EXCEPT !.isSyncing = FALSE, !.refreshing = FALSE]
    /\ UNCHANGED <<platform, running, flight, calls, syncVars, applyVars, loadVars, putVars, extVars>>

\* The user closes the window.  app.on('window-all-closed') quits the
\* application except on darwin, where the main process stays alive.
CloseWindow ==
    /\ running /\ window.open
    /\ window' = [window EXCEPT !.open = FALSE]
    /\ running' = (platform = "darwin")
    /\ flight' = IF platform = "darwin" THEN flight ELSE {}
    /\ UNCHANGED <<platform, calls, syncVars, applyVars, loadVars, putVars, extVars>>

\* app.on('activate'): no window is open, a new one is created; its renderer
\* starts with a new store.
Activate ==
    /\ running /\ ~window.open /\ platform = "darwin"
    /\ window.gen < MaxWindows
    /\ window' = NewWindow(window.gen + 1)
    /\ UNCHANGED <<platform, running, flight, calls, syncVars, applyVars, loadVars, putVars, extVars>>

InitIpc ==
    /\ InitSyncVars
    /\ live = EmptyTarget /\ InitApplyVars
    /\ platform \in {"darwin", "linux"} /\ InitIpcVars
    /\ InitLoadVars
    /\ InitPutVars
    /\ InitAuthVars
    /\ InitPassVars
    /\ InitUiVars

NextIpc ==
    \/ \E op \in StoreOps : StoreAction(op)
    \/ \E c \in flight : \E pc \in {"syncProfiles", "pullProfiles", "pushAllProfiles", "settings", "oauth"} :
          HandlerStep(c, pc)
    \/ \E c \in flight : HandlerReturn(c)
    \/ StoreFinally
    \/ CloseWindow
    \/ Activate

SpecIpc == InitIpc /\ [][NextIpc]_vars

\* ==================================================== concurrent applies
\* The renderer invokes profiles:load with one of its profiles; the message
\* waits in the event loop of the main process.
InvokeLoad(c, p) ==
    /\ loads[c].st = "none"
    /\ loads' = [loads EXCEPT ![c] = [st |-> "queued", profile |-> p]]
    /\ UNCHANGED <<micro, fslog, live, captured, alast, syncVars, ipcVars, putVars, extVars>>

\* The handler starts: loadProfile runs createBackup, which has no await of
\* its own, and is suspended at `await this.createBackup(...)`.
StartLoad(c, copyFail) ==
    LET b == CreateBackup(live, copyFail) IN
    /\ loads[c].st = "queued"
    /\ MayStartTask(micro)
    /\ copyFail # "-" => ~b.ok
    /\ fslog' = fslog \o Tagged(c, b.log)
    /\ loads' = [loads EXCEPT ![c].st = IF b.ok THEN "awaiting" ELSE "rejected"]
    /\ micro' = IF b.ok THEN Append(micro, c) ELSE micro
    /\ UNCHANGED <<live, captured, alast, syncVars, ipcVars, putVars, extVars>>

\* The continuation of the await: the rest of loadProfile runs to its end.
ResumeLoad ==
    /\ micro # <<>>
    /\ LET c == Head(micro)
           w == WriteProfile(loads[c].profile, live, <<>>)
       IN  /\ live' = w.live
           /\ fslog' = fslog \o Tagged(c, w.log)
           /\ loads' = [loads EXCEPT ![c].st = IF w.err = "none" THEN "done" ELSE "rejected"]
    /\ micro' = Tail(micro)
    /\ UNCHANGED <<captured, alast, syncVars, ipcVars, putVars, extVars>>

InitLoad ==
    /\ InitSyncVars
    /\ live \in {EmptyTarget, TargetWith(File(<<"61">>), Absent),
                  TargetWith(File(<<"FF">>), File(<<"61">>))}
    /\ InitApplyVars
    /\ platform = "darwin" /\ InitIpcVars
    /\ InitLoadVars
    /\ InitPutVars
    /\ InitAuthVars
    /\ InitPassVars
    /\ InitUiVars

NextLoad ==
    \/ \E c \in LoadCalls, p \in StoredProfiles : InvokeLoad(c, p)
    \/ \E c \in LoadCalls, copyFail \in {"-"} \cup Range(LuaFiles) : StartLoad(c, copyFail)
    \/ ResumeLoad

SpecLoad == InitLoad /\ [][NextLoad]_vars

\* ======================================================= overlapping puts
\* uploadProfile(profile) is called (by syncProfiles or pushAllProfiles) and
\* is suspended in findFileByName at drive.files.list.
StartPut(c, i) ==
    /\ puts[c].pc = "none"
    /\ puts' = [puts EXCEPT ![c] = [pc |-> "lookup", id |-> i, found |-> 0]]
    /\ UNCHANGED <<dfiles, syncVars, applyVars, ipcVars, loadVars, extVars>>

\* findFileByName returns: files[0].id when the listing names a file, null
\* when it names none and null when the request threw (the catch logs it).
Lookup(c, fid, throws) ==
    LET named == FilesNamed(dfiles, puts[c].id) IN
    /\ puts[c].pc = "lookup"
    /\ \/ throws /\ fid = 0
       \/ ~throws /\ named = {} /\ fid = 0
       \/ ~throws /\ fid \in {f.fid : f \in named}
    /\ puts' = [puts EXCEPT ![c].pc = "write", ![c].found = fid]
    /\ UNCHANGED <<dfiles, syncVars, applyVars, ipcVars, loadVars, extVars>>

\* drive.files.update of the file found, or drive.files.create of a new
\* file named profile-<id>.json when none was found.
WriteBlob(c, fid) ==
    /\ puts[c].pc = "write"
    /\ IF puts[c].found # 0
       THEN fid = puts[c].found /\ dfiles' = dfiles
       ELSE /\ fid \in FileIds \ {f.fid : f \in dfiles}
            /\ \A g \in FileIds \ {f.fid : f \in dfiles} : fid <= g
            /\ dfiles' = dfiles \cup {[fid |-> fid, id |-> puts[c].id]}
    /\ puts' = [puts EXCEPT ![c].pc = "done"]
    /\ UNCHANGED <<syncVars, applyVars, ipcVars, loadVars, extVars>>

NextPut ==
    \/ \E c \in PutCalls, i \in Ids : StartPut(c, i)
    \/ \E c \in PutCalls, fid \in FileIds \cup {0}, throws \in BOOLEAN : Lookup(c, fid, throws)
    \/ \E c \in PutCalls, fid \in FileIds : WriteBlob(c, fid)

SpecPut == Init /\ [][NextPut]_vars

\* =========================================== single calls on given stores
\* ipcMain.handle('gdrive:connect')
GdriveConnect(outcome) ==
    /\ configured
    /\ session' = Authenticate(session, outcome)
    /\ session' # session
    /\ credFile' = IF outcome = "granted" THEN "tokens" ELSE credFile
    /\ settingsFile' = IF outcome = "granted"
                       THEN [settingsFile EXCEPT !.googleDriveConnected = TRUE]
                       ELSE settingsFile
    /\ last' = [Idle EXCEPT !.op = "connect", !.ok = outcome = "granted"]
    /\ UNCHANGED <<local, remote, now, applyVars, ipcVars, loadVars, putVars, configured, auth, port, passVars, appStore, ulast>>

\* ipcMain.handle('gdrive:disconnect')
GdriveDisconnect ==
    /\ session' = Disconnect(session)
    /\ credFile' = "none"
    /\ settingsFile' = [settingsFile EXCEPT !.googleDriveConnected = FALSE,
                                            !.lastSyncTime = NoSyncTime]
    /\ last' = [Idle EXCEPT !.op = "disconnect"]
    /\ UNCHANGED <<local, remote, now, applyVars, ipcVars, loadVars, putVars, configured, auth, port, passVars, appStore, ulast>>

\* ipcMain.handle('profiles:list')
ProfilesList(dirOrder) ==
    /\ last' = [Idle EXCEPT !.op = "list", !.preLocal = local, !.preRemote = remote,
                            !.lps = ListProfiles(local, dirOrder)]
    /\ UNCHANGED <<local, remote, now, session, applyVars, ipcVars, loadVars, putVars, extVars>>

\* ipcMain.handle('profiles:delete') with any id, present or not.
DeleteLocal(i) ==
    /\ local' = DeleteProfile(local, i)
    /\ last' = [Idle EXCEPT !.op = "delete", !.id = i, !.preLocal = local, !.preRemote = remote]
    /\ UNCHANGED <<remote, now, session, applyVars, ipcVars, loadVars, putVars, extVars>>

\* deleteRemoteProfile(id) with any id, present or not.
DeleteRemote(i, lookupThrows) ==
    LET r == DeleteRemoteProfile(remote, i, session, lookupThrows) IN
    /\ lookupThrows => (session.drive /\ remote[i].st = "ok")
    /\ remote' = r.drive
    /\ last' = [Idle EXCEPT !.op = "rdelete", !.id = i, !.ok = r.ok,
                            !.err = IF r.ok THEN "none" ELSE "Not connected to Google Drive",
                            !.fault = IF lookupThrows THEN [kind |-> "list", id |-> 0] ELSE NoFault,
                            !.preLocal = local, !.preRemote = remote,
                            !.isConnected = IsConnected(session)]
    /\ UNCHANGED <<local, now, session, applyVars, ipcVars, loadVars, putVars, extVars>>

\* The stores a call may find: any profile absent, undecodable or saved at
\* some time, any blob absent or uploaded at time 0.
LocalStores ==
    {st \in [Ids -> {NoFile, CorruptFile} \cup {ProfileFile(NameOf(i), u) : i \in Ids, u \in 0..MaxTime}] :
        \A i \in Ids : st[i].st = "ok" => st[i].name = NameOf(i)}
RemoteStores ==
    {dr \in [Ids -> {NoBlob} \cup {Blob(0, NameOf(i), 0) : i \in Ids}] :
        \A i \in Ids : dr[i].st = "ok" => dr[i].name = NameOf(i)}

InitStore ==
    /\ local \in LocalStores
    /\ remote \in RemoteStores
    /\ now = MaxTime
    /\ last = Idle
    /\ session = Disconnected
    /\ live = EmptyTarget /\ InitApplyVars
    /\ platform = "darwin" /\ InitIpcVars
    /\ InitLoadVars
    /\ InitPutVars
    /\ InitAuthVars
    /\ InitPassVars
    /\ InitUiVars

NextStore ==
    \/ \E outcome \in {"granted", "unsaved", "refused"} : GdriveConnect(outcome)
    \/ GdriveDisconnect
    \/ \E dirOrder \in DirOrders : ProfilesList(dirOrder)
    \/ \E i \in Ids : DeleteLocal(i)
    \/ \E i \in Ids, lookupThrows \in BOOLEAN : DeleteRemote(i, lookupThrows)
    \/ \E dirOrder \in DirOrders : GdriveSync(dirOrder, ListOrder, NoFault)
    \/ \E dirOrder \in DirOrders : GdrivePush(dirOrder, NoFault)
    \/ GdrivePull(ListOrder, NoFault)

SpecStore == InitStore /\ [][NextStore]_vars

\* ================================================= authenticate, stepwise
\* authenticate() up to the return of the promise: the isConfigured check,
\* createServer, listen (an occupied port makes the server emit 'error' and
\* never listen), setTimeout.
AuthInvoke(c) ==
    /\ auth[c].st = "idle"
    /\ IF ~configured
       THEN /\ auth' = [auth EXCEPT ![c] = [NoAuth EXCEPT !.st = "rejected", !.err = "not configured"]]
            /\ port' = port
       ELSE /\ auth' = [auth EXCEPT ![c] = [st |-> "pending", err |-> "none",
                                             server |-> IF port = 0 THEN "listening" ELSE "failed",
                                             timer |-> "armed", exch |-> FALSE]]
            /\ port' = IF port = 0 THEN c ELSE port
    /\ UNCHANGED <<configured, credFile, syncVars, applyVars, ipcVars, loadVars, putVars, passVars, uiVars>>

\* A request reaches the callback server: some other path (nothing is done
\* and nothing is answered), /oauth2callback without a code, or with one
\* (getToken is awaited).
AuthRequest(c, kind) ==
    /\ auth[c].server = "listening"
    /\ kind = "code" => ~auth[c].exch
    /\ auth' = [auth EXCEPT ![c] =
                   IF kind = "nocode" THEN Settle(CloseServer(@), "rejected", "no code")
                   ELSE IF kind = "code" THEN [@ EXCEPT !.exch = TRUE]
                   ELSE @]
    /\ port' = IF kind = "nocode" THEN PortAfterClose(c, port) ELSE port
    /\ UNCHANGED <<configured, credFile, syncVars, applyVars, ipcVars, loadVars, putVars, passVars, uiVars>>

\* getToken settles and the request handler runs to its end: the tokens are
\* set, saved and the drive client made ("granted"); saveCredentials throws
\* ("unsaved"); getToken throws ("refused").
AuthExchanged(c, outcome) ==
    /\ auth[c].exch
    /\ session' = Authenticate(session, outcome)
    /\ credFile' = IF outcome = "granted" THEN "tokens" ELSE credFile
    /\ auth' = [auth EXCEPT ![c] =
                   IF outcome = "granted"
                   THEN Settle(CloseServer([@ EXCEPT !.exch = FALSE]), "resolved", "none")
                   ELSE Settle(CloseServer([@ EXCEPT !.exch = FALSE]), "rejected", outcome)]
    /\ port' = PortAfterClose(c, port)
    /\ settingsFile' = IF outcome = "granted" /\ auth[c].st = "pending"
                       THEN [settingsFile EXCEPT !.googleDriveConnected = TRUE]
                       ELSE settingsFile
    /\ UNCHANGED <<configured, local, remote, now, last, applyVars, ipcVars, loadVars, putVars, passVars, appStore, ulast>>

\* The five-minute timer fires: server.close() and reject.
AuthTimeout(c) ==
    /\ auth[c].timer = "armed"
    /\ auth' = [auth EXCEPT ![c] =
                   Settle(CloseServer([@ EXCEPT !.timer = "fired"]), "rejected", "timed out")]
    /\ port' = PortAfterClose(c, port)
    /\ UNCHANGED <<configured, credFile, syncVars, applyVars, ipcVars, loadVars, putVars, passVars, uiVars>>

\* The application starts configured or not, with or without a credentials
\* file of an earlier run, one local profile and at most one remote one.
InitAuth ==
    /\ configured \in BOOLEAN
    /\ credFile \in CredFiles
    /\ session = LoadCredentials(credFile)
    /\ auth = [c \in AuthCalls |-> NoAuth]
    /\ port = 0
    /\ local = [i \in Ids |-> IF i = 1 THEN ProfileFile(NameOf(i), 0) ELSE NoFile]
    /\ remote \in {[i \in Ids |-> NoBlob],
                    [i \in Ids |-> IF i = 2 THEN Blob(0, NameOf(i), 0) ELSE NoBlob]}
    /\ now = MaxTime
    /\ last = Idle
    /\ live = EmptyTarget /\ InitApplyVars
    /\ platform = "darwin" /\ InitIpcVars
    /\ InitLoadVars
    /\ InitPutVars
    /\ InitPassVars
    /\ InitUiVars

NextAuth ==
    \/ \E c \in AuthCalls : AuthInvoke(c)
    \/ \E c \in AuthCalls, kind \in {"other", "nocode", "code"} : AuthRequest(c, kind)
    \/ \E c \in AuthCalls, outcome \in {"granted", "unsaved", "refused"} : AuthExchanged(c, outcome)
    \/ \E c \in AuthCalls : AuthTimeout(c)

\* setTimeout fires its callback once the delay has passed.
SpecAuth == InitAuth /\ [][NextAuth]_vars /\ \A c \in AuthCalls : WF_vars(AuthTimeout(c))

\* One connect request and the gdrive handlers, configured or not.
NextConf ==
    \/ \E c \in {1} : AuthInvoke(c)
    \/ \E c \in {1}, kind \in {"other", "nocode", "code"} : AuthRequest(c, kind)
    \/ \E c \in {1}, outcome \in {"granted", "unsaved", "refused"} : AuthExchanged(c, outcome)
    \/ \E c \in {1} : AuthTimeout(c)
    \/ GdriveSync(ListOrder, ListOrder, NoFault)
    \/ GdrivePush(ListOrder, NoFault)
    \/ GdrivePull(ListOrder, NoFault)

SpecConf == InitAuth /\ [][NextConf]_vars

\* ================================================== gdrive:sync, stepwise
\* The gdrive:sync handler suspends at each remote call; other handlers run
\* in between.  Its local saves are separated by microtasks only.

\* gdrive:sync up to the first remote call: listProfiles() is the snapshot.
PassList(dirOrder) ==
    /\ pass.pc = "idle"
    /\ session.drive
    /\ pass' = [NoPass EXCEPT !.pc = "comparing", !.lps = ListProfiles(local, dirOrder),
                              !.atRead = local]
    /\ UNCHANGED <<syncVars, applyVars, ipcVars, loadVars, putVars, authVars, uiVars>>

\* syncProfiles(localProfiles): the remote listing, the uploads, the result;
\* with nothing to download the handler goes on to its settings write.
PassCompare ==
    LET r == SyncProfiles(pass.lps, remote, ListOrder, {}, FALSE, 0, now) IN
    /\ pass.pc = "comparing"
    /\ remote' = r.drive
    /\ pass' = [pass EXCEPT !.pc = IF Len(r.downloaded) > 0 THEN "pulling" ELSE "done",
                            !.downloaded = r.downloaded]
    /\ settingsFile' = SaveLastSyncTime(settingsFile, Len(r.downloaded) = 0, now)
    /\ UNCHANGED <<local, now, last, session, applyVars, ipcVars, loadVars, putVars, authVars, appStore, ulast>>

\* pullProfiles() returns and the save loop runs against the snapshot.
PassSave ==
    LET rps == ListRemoteProfiles(remote, ListOrder, {})
        s == SyncSaveLoop(rps, pass.lps, [store |-> local, saves |-> {}, log |-> <<>>], now)
    IN  /\ pass.pc = "pulling"
        /\ local' = s.store
        /\ pass' = [pass EXCEPT !.pc = "done", !.saves = s.saves, !.atWrite = local,
                                !.remoteTime = [i \in Ids |-> remote[i].modifiedTime]]
        /\ settingsFile' = SaveLastSyncTime(settingsFile, TRUE, now)
        /\ UNCHANGED <<remote, now, last, session, applyVars, ipcVars, loadVars, putVars, authVars, appStore, ulast>>

\* ipcMain.handle('profiles:save') of a profile the store holds.
ProfilesSave(i) ==
    /\ local[i].st = "ok"
    /\ local' = SaveProfile(local, [id |-> i, name |-> local[i].name, updatedAt |-> local[i].updatedAt], now)
    /\ local' # local
    /\ UNCHANGED <<remote, now, last, session, applyVars, ipcVars, loadVars, putVars, extVars>>

\* Profile 1 is held locally or not; no remote profile yet.
InitPass ==
    /\ local \in {[i \in Ids |-> NoFile],
                   [i \in Ids |-> IF i = 1 THEN ProfileFile(NameOf(i), 0) ELSE NoFile]}
    /\ remote = [i \in Ids |-> NoBlob]
    /\ now = 0
    /\ last = Idle
    /\ session = Connected
    /\ live = EmptyTarget /\ InitApplyVars
    /\ platform = "darwin" /\ InitIpcVars
    /\ InitLoadVars
    /\ InitPutVars
    /\ InitAuthVars
    /\ InitPassVars
    /\ InitUiVars

NextPass ==
    \/ Tick
    \/ \E i \in Ids, u \in 0..now : OtherDevicePut(i, u)
    \/ \E i \in Ids : ProfilesSave(i)
    \/ \E dirOrder \in DirOrders : PassList(dirOrder)
    \/ PassCompare
    \/ PassSave

SpecPass == InitPass /\ [][NextPass]_vars

\* ================================================ apply of a given profile
\* ipcMain.handle('profiles:load') with a profile of the renderer's choice.
ProfilesLoad(p) ==
    LET r == LoadProfile(p, live, "-") IN
    /\ live' = r.live
    /\ alast' = [op |-> "apply", err |-> r.err, copyFail |-> "-", preLive |-> live,
                 backup |-> r.backup, log |-> r.log, profile |-> p]
    /\ UNCHANGED <<captured, syncVars, ipcVars, loadVars, putVars, extVars>>

NextWrite == \E p \in GivenProfiles : ProfilesLoad(p)

SpecWrite == InitLoad /\ [][NextWrite]_vars

\* ====================================================== the renderer's store
\* initialize(): settings:get and set({ settings }).
Initialize ==
    /\ ~appStore.loaded
    /\ appStore' = [appStore EXCEPT !.loaded = TRUE, !.settings = settingsFile]
    /\ ulast' = [UIdle EXCEPT !.op = "initialize"]
    /\ UNCHANGED <<settingsFile, syncVars, applyVars, ipcVars, loadVars, putVars, authVars, passVars>>

\* checkGoogleDriveStatus(): gdrive:is-configured, gdrive:get-status (whose
\* userinfo request may fail), set({ syncStatus }), and the updateSettings
\* when the stored connection flag differs from the status.
CheckGoogleDriveStatus(userinfoOk) ==
    LET status == Status(IsConnected(session) /\ userinfoOk)
        differs == appStore.loaded /\ appStore.settings.googleDriveConnected # status.connected
        updated == [appStore.settings EXCEPT !.googleDriveConnected = status.connected]
    IN  /\ ~userinfoOk => (configured /\ IsConnected(session))
        /\ IF ~configured
           THEN /\ appStore' = [appStore EXCEPT !.syncStatus = Status(FALSE)]
                /\ settingsFile' = settingsFile
           ELSE /\ appStore' = [appStore EXCEPT !.syncStatus = status,
                                               !.settings = IF differs THEN updated ELSE @]
                /\ settingsFile' = IF differs THEN updated ELSE settingsFile
        /\ ulast' = [UIdle EXCEPT !.op = "checkGoogleDriveStatus", !.preFile = settingsFile]
        /\ UNCHANGED <<syncVars, applyVars, ipcVars, loadVars, putVars, authVars, passVars>>

\* updateSettings({ selectedAccount }): the merge with the store's copy is
\* sent to settings:save, which writes it whole.
UpdateSettings(account) ==
    LET updated == [appStore.settings EXCEPT !.selectedAccount = account] IN
    /\ appStore.loaded
    /\ appStore.settings.selectedAccount # account
    /\ settingsFile' = updated
    /\ appStore' = [appStore EXCEPT !.settings = updated]
    /\ ulast' = [op |-> "updateSettings", account |-> account, preFile |-> settingsFile]
    /\ UNCHANGED <<syncVars, applyVars, ipcVars, loadVars, putVars, authVars, passVars>>

\* The end of syncWithGoogleDrive, pushToGoogleDrive, pullFromGoogleDrive
\* and disconnectGoogleDrive after their handler returned: settings:get and
\* set({ settings }); disconnectGoogleDrive sets syncStatus before.
RefreshSettings ==
    /\ last.op \in StoreOps /\ last.ok
    /\ appStore' = [appStore EXCEPT !.loaded = TRUE, !.settings = settingsFile,
                                    !.syncStatus = IF last.op = "disconnect" THEN Status(FALSE) ELSE @]
    /\ appStore' # appStore
    /\ ulast' = [UIdle EXCEPT !.op = "refresh"]
    /\ UNCHANGED <<settingsFile, syncVars, applyVars, ipcVars, loadVars, putVars, authVars, passVars>>

\* The application starts configured or not, connected by the credentials
\* file of an earlier run or not, with empty stores.
InitUi ==
    /\ configured \in BOOLEAN
    /\ credFile \in {"none", "tokens"}
    /\ session = LoadCredentials(credFile)
    /\ auth = [c \in AuthCalls |-> NoAuth]
    /\ port = 0
    /\ local = [i \in Ids |-> NoFile]
    /\ remote = [i \in Ids |-> NoBlob]
    /\ now = 0
    /\ last = Idle
    /\ settingsFile = [DEFAULT_SETTINGS EXCEPT !.googleDriveConnected = credFile = "tokens"]
    /\ appStore = NewStore
    /\ ulast = UIdle
    /\ live = EmptyTarget /\ InitApplyVars
    /\ platform = "darwin" /\ InitIpcVars
    /\ InitLoadVars
    /\ InitPutVars
    /\ InitPassVars

NextUi ==
    \/ Tick
    \/ Initialize
    \/ \E userinfoOk \in BOOLEAN : CheckGoogleDriveStatus(userinfoOk)
    \/ \E account \in Accounts : UpdateSettings(account)
    \/ RefreshSettings
    \/ \E f \in {NoFault, [kind |-> "list", id |-> 0]} : GdriveSync(ListOrder, ListOrder, f)
    \/ GdrivePush(ListOrder, NoFault)
    \/ \E f \in {NoFault, [kind |-> "list", id |-> 0]} : GdrivePull(ListOrder, f)
    \/ GdriveDisconnect

SpecUi == InitUi /\ [][NextUi]_vars

\* ================================================================== claims
\* A handler run without a fault, over a local store without undecodable files.
CleanRun(op) ==
    /\ last.op = op /\ last.ok /\ last.fault = NoFault
    /\ Present(last.preLocal) = Decodable(last.preLocal)
InBoth(i) == last.preLocal[i].st = "ok" /\ last.preRemote[i].st = "ok"

\* C1: for a profile in both stores with local updatedAt T1 and remote
\* modifiedTime T2, one gdrive:sync run uploads it iff T1 > T2, saves the
\* remote copy locally iff T2 > T1, and does neither iff T1 = T2.
C1_LastWriteWins ==
    CleanRun("sync") =>
        \A i \in Ids : InBoth(i) =>
            LET T1 == last.preLocal[i].updatedAt
                T2 == last.preRemote[i].modifiedTime
            IN  /\ (i \in last.puts) <=> (T1 > T2)
                /\ (i \in last.saves) <=> (T2 > T1)

\* C2: a gdrive:sync run that directly follows a successful gdrive:sync run
\* returns empty uploaded and downloaded lists.
C2_SecondRunEmpty ==
    (CleanRun("sync") /\ last.again) => (last.uploaded = <<>> /\ last.downloaded = <<>>)

\* C3: one gdrive:sync run uploads every profile that exists only locally
\* (its name is in uploaded) and saves every profile that exists only
\* remotely (its name is in downloaded).
C3_NewOnlyPropagation ==
    (last.op = "sync" /\ last.ok /\ last.fault = NoFault) =>
        \A i \in Ids :
            /\ (last.preLocal[i].st = "ok" /\ last.preRemote[i].st = "none") =>
                   (i \in last.puts /\ remote[i].st = "ok" /\ NameOf(i) \in Range(last.uploaded))
            /\ (last.preLocal[i].st = "none" /\ last.preRemote[i].st = "ok") =>
                   (i \in last.saves /\ local[i].st = "ok" /\ NameOf(i) \in Range(last.downloaded))

\* C4: gdrive:push writes every local profile to the remote store and
\* gdrive:pull writes every remote profile to the local store, whatever the
\* timestamps.
C4_PushPullUnconditional ==
    /\ (last.op = "push" /\ last.ok /\ last.fault = NoFault) =>
           \A i \in Ids : last.preLocal[i].st = "ok" =>
               /\ i \in last.puts
               /\ remote[i] = Blob(now, last.preLocal[i].name, last.preLocal[i].updatedAt)
    /\ (last.op = "pull" /\ last.ok /\ last.fault = NoFault) =>
           \A i \in Ids : last.preRemote[i].st = "ok" =>
               /\ i \in last.saves
               /\ local[i] = ProfileFile(last.preRemote[i].name, now)

\* C8: listProfiles returns every decodable record of a store that also holds
\* an undecodable one, so every valid profile takes part in the run.
C8_LocalCorruptIsolated ==
    last.op \in {"sync", "push"} => last.listed = Decodable(last.preLocal)

Writes(log) == {k \in 1..Len(log) : log[k].op = "write"}
Copies(log) == {k \in 1..Len(log) : log[k].op = "copy"}
C5_BackupBeforeWrite ==
    alast.op = "apply" =>
        /\ \A j \in Copies(alast.log), k \in Writes(alast.log) : j < k
        /\ (Writes(alast.log) # {}) =>
               \A f \in Range(LuaFiles) :
                   alast.preLive.files[f].ex => alast.backup.files[f] = alast.preLive.files[f]
        /\ (alast.copyFail # "-") =>
               (alast.err = "backup" /\ Writes(alast.log) = {} /\ live = alast.preLive)

\* A loadProfile call whose second backup copy failed, for a profile that
\* holds files to write.
C5_Witness ==
    /\ alast.op = "apply" /\ alast.err = "backup"
    /\ Copies(alast.log) # {}
    /\ captured.profile.addons # <<>>

\* C6: every file that existed before a loadProfile call and was overwritten
\* by it, config-cache.wtf included, is in the backup directory of that call
\* with the content it had before.
C6_OverwrittenHasBackup ==
    (alast.op = "apply" /\ alast.err = "none") =>
        \A k \in Writes(alast.log) :
            LET f == alast.log[k].file IN
            alast.preLive.files[f].ex => alast.backup.files[f] = alast.preLive.files[f]

\* C7: a capture followed by loadProfile of the captured profile into an
\* empty account directory leaves, for every captured file key, a file whose
\* content is that of the file the key was captured from.
KeysOf(profile) ==
    UNION {{profile.addons[a].files[k].fileName : k \in 1..Len(profile.addons[a].files)} :
           a \in 1..Len(profile.addons)}
C7_RoundTrip ==
    (alast.op = "apply" /\ alast.err = "none" /\ alast.preLive.files = EmptyTarget.files) =>
        \A f \in KeysOf(captured.profile) : live.files[f] = captured.source.files[f]

\* C10: at most one gdrive:sync, gdrive:push or gdrive:pull handler is in
\* flight at any time.
C10_SingleFlight == Cardinality({c \in flight : c.op \in SyncOps}) <= 1

\* C11: two loadProfile runs on the same account directory never interleave:
\* between two fs calls of one run there is no fs call of the other.
CallsOf(c) == {k \in 1..Len(fslog) : fslog[k].call = c}
C11_AppliesSerialized ==
    \A i, j, k \in 1..Len(fslog) :
        (i < j /\ j < k /\ fslog[i].call = fslog[k].call) => fslog[j].call = fslog[i].call

\* Two loadProfile runs that were both requested before either had finished,
\* each of which copied a backup file and wrote a live file.
C11_Witness ==
    /\ \A c \in LoadCalls :
           /\ loads[c].st = "done"
           /\ \E k \in CallsOf(c) : fslog[k].op = "copy"
           /\ \E k \in CallsOf(c) : fslog[k].op = "write"

\* C12: when a gdrive:sync run returns its result, every profile named in
\* uploaded has been written to the remote store and every profile named in
\* downloaded has been saved in the local store with the remote content.
C12_DecidedTransfersExecuted ==
    CleanRun("sync") =>
        \A i \in Ids :
            /\ NameOf(i) \in Range(last.uploaded) =>
                   (i \in last.puts /\ remote[i] = Blob(now, NameOf(i), last.preLocal[i].updatedAt))
            /\ NameOf(i) \in Range(last.downloaded) =>
                   (i \in last.saves /\ local[i] = ProfileFile(last.preRemote[i].name, now))

\* C13: after a gdrive:sync run that ends without error the local and the
\* remote store hold the same profile ids and, for each id, the same content.
C13_StoresConverge ==
    (last.op = "sync" /\ last.ok /\ last.fault = NoFault) =>
        /\ Decodable(local) = Decodable(remote)
        /\ \A i \in Decodable(local) : local[i].name = remote[i].name

\* C14: whatever uploadProfile runs have happened, with a by-name lookup that
\* failed or two runs for the same profile that overlapped among them, the
\* remote store holds at most one file per profile id.
C14_OneBlobPerId == \A i \in Ids : Cardinality(FilesNamed(dfiles, i)) <= 1

\* C15: when isConnected() is false, gdrive:sync, gdrive:push, gdrive:pull and
\* deleteRemoteProfile fail with the not-connected error and leave the local
\* and the remote store as they were.
C15_NotConnectedFails ==
    (last.op \in SyncOps \cup {"rdelete"} /\ ~last.isConnected) =>
        /\ ~last.ok
        /\ last.err = "Not connected to Google Drive"
        /\ local = last.preLocal
        /\ remote = last.preRemote
        /\ last.log = <<>>

\* A gdrive:sync run without a session over a local store that holds a
\* profile the remote store lacks.
C15_Witness ==
    /\ last.op = "sync" /\ ~last.isConnected
    /\ \E i \in Ids : local[i].st = "ok" /\ remote[i].st = "none"

\* C16: when drive.files.list or an upload throws during gdrive:sync,
\* gdrive:push or gdrive:pull, the handler fails, the call that threw is the
\* last call the run made on either store and the only one that threw, and
\* the local store is as it was before the run.
C16_FailureEndsTheRun ==
    (last.op \in SyncOps /\ last.fault.kind \in {"list", "relist", "put"}) =>
        /\ ~last.ok
        /\ last.err = "remote"
        /\ Len(last.log) > 0
        /\ \A k \in 1..Len(last.log) : last.log[k].ev = "throw" <=> k = Len(last.log)
        /\ local = last.preLocal
        /\ last.saves = {}
        /\ \A i \in Ids : i \notin last.puts => remote[i] = last.preRemote[i]

\* A gdrive:push whose second upload threw after the first was written.
C16_Witness ==
    /\ last.op = "push" /\ last.fault.kind = "put"
    /\ Len(last.log) = 2 /\ last.log[1].ev = "put"
    /\ remote[last.log[1].id] # last.preRemote[last.log[1].id]

\* C18: every profile a gdrive:sync download or a gdrive:pull saved is held
\* afterwards as the one record of its id, with the remote profile's content
\* and the time of the save as updatedAt, whatever updatedAt the remote
\* profile carried.
C18_SaveStampsNow ==
    (last.op \in {"sync", "pull"} /\ last.ok) =>
        \A i \in last.saves :
            /\ last.preRemote[i].st = "ok"
            /\ local[i] = ProfileFile(last.preRemote[i].name, now)

\* A gdrive:pull that saved a profile whose own updatedAt is older than the
\* time of the save.
C18_Witness ==
    /\ last.op = "pull" /\ last.ok
    /\ \E i \in last.saves : last.preRemote[i].updatedAt < now

\* C19: no step of profile creation, gdrive:sync or gdrive:pull lowers the
\* updatedAt of a profile that the local store holds before and after it.
C19_UpdatedAtMonotone ==
    [][\A i \in Ids : (local[i].st = "ok" /\ local'[i].st = "ok")
                          => local'[i].updatedAt >= local[i].updatedAt]_vars

\* A gdrive:pull that saved over a local record newer than the updatedAt the
\* remote profile carried.
C19_Witness ==
    /\ last.op = "pull" /\ last.ok
    /\ \E i \in last.saves :
          /\ last.preLocal[i].st = "ok"
          /\ last.preRemote[i].updatedAt < last.preLocal[i].updatedAt

\* C17: over a store whose files all decode, profiles:list returns the
\* profiles newest first, profiles of equal updatedAt by ascending id, and
\* returns the same sequence for every order in which readdirSync may
\* enumerate the files.
C17_ListOrderDeterministic ==
    (last.op = "list" /\ Present(last.preLocal) = Decodable(last.preLocal)) =>
        /\ \A j, k \in 1..Len(last.lps) :
               j < k => \/ last.lps[j].updatedAt > last.lps[k].updatedAt
                        \/ /\ last.lps[j].updatedAt = last.lps[k].updatedAt
                           /\ last.lps[j].id < last.lps[k].id
        /\ \A dirOrder \in DirOrders : ListProfiles(last.preLocal, dirOrder) = last.lps

\* C20: profiles:delete and deleteRemoteProfile of an id the store does not
\* hold succeed and leave the store as it was, and a second delete of an id
\* just deleted (by a run whose lookup did not throw) changes nothing.
C20_DeleteIdempotent ==
    /\ (last.op = "delete" /\ last.preLocal[last.id].st = "none") =>
           (last.ok /\ local = last.preLocal)
    /\ last.op = "delete" => DeleteProfile(local, last.id) = local
    /\ (last.op = "rdelete" /\ session.drive /\ last.preRemote[last.id].st = "none") =>
           (last.ok /\ remote = last.preRemote)
    /\ (last.op = "rdelete" /\ session.drive /\ last.fault = NoFault) =>
           DeleteRemoteProfile(remote, last.id, session, FALSE) = [ok |-> TRUE, drive |-> remote]

\* A deleteRemoteProfile, with a session, of an id the remote store does not
\* hold while it holds another.
C20_Witness ==
    /\ last.op = "rdelete" /\ session.drive
    /\ last.preRemote[last.id].st = "none"
    /\ \E j \in Ids : remote[j].st = "ok"

\* C21: a step that removes a record from the local store is no gdrive
\* handler run and leaves the remote store as it was; no step of a gdrive
\* handler removes a record from the remote store; and a clean gdrive:sync
\* run started with a profile absent locally and present remotely ends with
\* that profile present locally.
C21_DeletionNotPropagated ==
    [][/\ (\E i \in Ids : local[i].st # "none" /\ local'[i].st = "none")
              => (last'.op \notin SyncOps /\ remote' = remote)
       /\ (\E i \in Ids : remote[i].st # "none" /\ remote'[i].st = "none")
              => last'.op \notin SyncOps
       /\ (last'.op = "sync" /\ last'.ok /\ last'.fault = NoFault)
              => \A i \in Ids : (local[i].st = "none" /\ remote[i].st = "ok")
                                   => local'[i].st = "ok"]_vars

\* A clean gdrive:sync that saved a profile the local store did not hold,
\* from a blob uploaded before the run.
C21_Witness ==
    /\ last.op = "sync" /\ last.ok /\ last.fault = NoFault
    /\ \E i \in last.saves :
          /\ last.preLocal[i].st = "none"
          /\ last.preRemote[i].st = "ok"
          /\ local[i].st = "ok"

\* C22: every authenticate() call that was started settles; it is resolved
\* only after a code was exchanged and the credentials stored, it is rejected
\* with the error of the callback without a code, of the failed exchange or
\* of the timer; and no settled call has its callback server still listening.
C22_AuthenticateSettles ==
    /\ \A c \in AuthCalls : (auth[c].st = "pending") ~> (auth[c].st \in {"resolved", "rejected"})
    /\ [](\A c \in AuthCalls :
            /\ auth[c].st \in {"resolved", "rejected"} => auth[c].server # "listening"
            /\ auth[c].st = "resolved" => (session = Connected /\ credFile = "tokens")
            /\ auth[c].st = "rejected" =>
                   auth[c].err \in {"not configured", "no code", "refused", "unsaved", "timed out"})

\* A call rejected by its timer after its server had listened, and a call
\* resolved by an exchange.
C22_Witness ==
    \E c, d \in AuthCalls :
        /\ auth[c].st = "rejected" /\ auth[c].err = "timed out" /\ auth[c].server = "closed"
        /\ auth[d].st = "resolved" /\ auth[d].server = "closed"

\* C23: when isConfigured() is false every authenticate() call made is
\* rejected with the not-configured error, with no callback server and no
\* timer, and no gdrive:sync, gdrive:push or gdrive:pull run makes a call on
\* the remote store.
C23_NotConfiguredBlocks ==
    ~configured =>
        /\ \A c \in AuthCalls : auth[c].st # "idle" =>
               /\ auth[c].st = "rejected" /\ auth[c].err = "not configured"
               /\ auth[c].server = "none" /\ auth[c].timer = "none"
        /\ last.op \in SyncOps => (~last.ok /\ last.log = <<>> /\ remote = last.preRemote)

\* C24: every profile the download phase of a gdrive:sync run saved had, at
\* the moment of the save, no local record or a local record older than the
\* remote modifiedTime, and the local record was the one the run had read.
C24_RecheckAtWrite ==
    pass.pc = "done" =>
        \A i \in pass.saves :
            /\ \/ pass.atWrite[i].st = "none"
               \/ pass.atWrite[i].updatedAt < pass.remoteTime[i]
            /\ pass.atWrite[i] = pass.atRead[i]

\* C25: every bundle of a captured profile is of a requested add-on, is
\* enabled and holds at least one file, each a known file of that add-on
\* that existed in the account directory; a requested add-on none of whose
\* known files existed has no bundle in the profile.
C25_CapturedBundles ==
    captured.has =>
        /\ \A k \in 1..Len(captured.profile.addons) :
               LET b == captured.profile.addons[k] IN
               /\ b.name \in Range(captured.addons)
               /\ b.enabled
               /\ Len(b.files) > 0
               /\ \A j \in 1..Len(b.files) :
                      /\ b.files[j].fileName \in Range(ADDON_FILES(b.name))
                      /\ captured.source.files[b.files[j].fileName].ex
        /\ \A a \in Range(captured.addons) :
               (\A f \in Range(ADDON_FILES(a)) : ~captured.source.files[f].ex)
                   => \A k \in 1..Len(captured.profile.addons) : captured.profile.addons[k].name # a

\* A capture of two add-ons from an account directory that holds a file of
\* one of them only.
C25_Witness ==
    /\ captured.has /\ captured.addons = <<"ElvUI", "WeakAuras">>
    /\ captured.source.dirs = "saved"
    /\ captured.source.files["ElvUI.lua"].ex
    /\ \A f \in Range(ADDON_FILES("WeakAuras")) : ~captured.source.files[f].ex
    /\ Len(captured.profile.addons) = 1

\* C27: after a loadProfile that got past its backup, of a profile that
\* carries a gameSettings blob, config-cache.wtf holds that blob.
C27_SettingsBlobWritten ==
    (alast.op = "apply" /\ alast.err # "backup" /\ alast.profile.gameSettings.has) =>
        live.files[ConfigCache] = File(Utf8Encode(alast.profile.gameSettings.text))

\* C26: a loadProfile that got past its backup wrote, in order, the entries
\* of the account level of the enabled bundles and no other SavedVariables
\* file: each such file holds the content of the last entry that names it,
\* every other SavedVariables file is as it was, config-cache.wtf is as it
\* was when the profile carries no gameSettings, and entries of disabled
\* bundles or of another level raise no error.
RECURSIVE Eligible(_)
Eligible(addons) ==
    IF addons = <<>> THEN <<>>
    ELSE (IF Head(addons).enabled
          THEN SelectSeq(Head(addons).files, LAMBDA e : e.level = "account")
          ELSE <<>>) \o Eligible(Tail(addons))
LuaWrites(log) == SelectSeq(log, LAMBDA e : e.op = "write" /\ e.file # ConfigCache)
C28_StatusNullUnconfigured ==
    (~configured /\ ulast.op = "checkGoogleDriveStatus") => appStore.syncStatus.null

\* C29: settings.lastSyncTime changes only in a step of gdrive:sync,
\* gdrive:push or gdrive:pull that succeeded, to the time of that step, or
\* in a step of gdrive:disconnect, to null; a handler run that failed
\* leaves it as it was.
C29_LastSyncTimeFrame ==
    [][settingsFile'.lastSyncTime # settingsFile.lastSyncTime =>
          \/ /\ last'.op \in SyncOps /\ last'.ok
             /\ settingsFile'.lastSyncTime = SyncTime(now')
          \/ /\ last'.op = "disconnect"
             /\ settingsFile'.lastSyncTime = NoSyncTime]_vars

\* C30: a settings save of the renderer leaves lastSyncTime and the
\* connection flag of settings.json as the handlers wrote them, and stores
\* the user's change.
C30_NoLostSettingsUpdate ==
    [][(ulast' # ulast /\ ulast'.op = "updateSettings") =>
          /\ settingsFile'.lastSyncTime = settingsFile.lastSyncTime
          /\ settingsFile'.googleDriveConnected = settingsFile.googleDriveConnected
          /\ settingsFile'.selectedAccount = ulast'.account]_vars

====
